---- MODULE Spec2Model ----
(***************************************************************************)
(* A model of e621_tag_counter.py: the yearly post counter of one run, its *)
(* score-partitioned counting of result sets above the pagination ceiling, *)
(* the retry on timeouts, and the CSV store with its read-merge-rewrite.   *)
(***************************************************************************)
EXTENDS Integers, Sequences, FiniteSets, TLC

(* ------------------------------------------------------------------ *)
(* Program constants                                                   *)
(* ------------------------------------------------------------------ *)

CURRENT_YEAR == 2025

INITIAL_BOUND_SCORE == 512

INITIAL_INTERVAL_SCORE == 512

\* range(18, 0, -1): the year offsets of one tag, 18 down to 1
LOOKBACK_YEARS == 18

\* posts on one result page
PAGE_SIZE == 75

\* data-total at or above which the result set counts as truncated
PAGE_CEILING == 750

(* ------------------------------------------------------------------ *)
(* Bounds of the model                                                 *)
(* ------------------------------------------------------------------ *)

\* nested Python calls (retries of a year plus nested partition passes)
\* after which the interpreter raises RecursionError
RecursionLimit == 3

\* non-empty score groups of the simulated client's item distribution
MaxGroups == 2

\* probes of one partition pass that the history keeps
MaxProbes == 24

(* ------------------------------------------------------------------ *)
(* Strings, dicts                                                      *)
(* ------------------------------------------------------------------ *)

\* str.lower() on the tokens of the model
Lower(s) ==
  CASE s = "Fox" -> "fox"
    [] s = "Fox wolf" -> "fox wolf"
    [] OTHER -> s

Max(a, b) == IF a >= b THEN a ELSE b

Range(s) == {s[i] : i \in 1..Len(s)}

\* x in list
InList(x, s) == \E i \in 1..Len(s) : s[i] = x

\* list.index(x) (1-based), for x in the list
IndexOf(x, s) == CHOOSE i \in 1..Len(s) : s[i] = x /\ \A j \in 1..(i-1) : s[j] # x

\* list.pop(i): the list without its i-th element
PopAt(s, i) == SubSeq(s, 1, i-1) \o SubSeq(s, i+1, Len(s))

\* list.remove(x): the list without the first occurrence of x
RemoveFirst(x, s) == PopAt(s, IndexOf(x, s))

\* " ".join(list), for a non-empty list
RECURSIVE Join(_)
Join(s) == IF Len(s) = 1 THEN s[1] ELSE s[1] \o " " \o Join(Tail(s))

\* A Python dict is a sequence of <<key, value>> pairs in insertion order.
\* A value is <<"str", s>> or <<"int", n>>.
Keys(d) == [i \in 1..Len(d) |-> d[i][1]]

HasKey(d, k) == \E i \in 1..Len(d) : d[i][1] = k

Get(d, k) == d[CHOOSE i \in 1..Len(d) : d[i][1] = k][2]

\* d[k] = v
Put(d, k, v) ==
  IF HasKey(d, k)
    THEN [i \in 1..Len(d) |-> IF d[i][1] = k THEN <<k, v>> ELSE d[i]]
    ELSE Append(d, <<k, v>>)

\* str(v) as the csv writer applies it to a cell
Str(v) == IF v[1] = "int" THEN ToString(v[2]) ELSE v[2]

\* str(CURRENT_YEAR-year), the column of a year offset
YearLabel(year) == ToString(CURRENT_YEAR - year)

\* the keys of a complete new_row, in insertion order
Fieldnames ==
  <<"Tag">> \o [i \in 1..LOOKBACK_YEARS |-> YearLabel(LOOKBACK_YEARS + 1 - i)]

(* ------------------------------------------------------------------ *)
(* The persisted CSV file                                              *)
(* ------------------------------------------------------------------ *)

NoFile == [exists |-> FALSE, header |-> <<>>, rows |-> <<>>]

CsvFile(header, rows) == [exists |-> TRUE, header |-> header, rows |-> rows]

\* csv.DictReader: one dict per row, keyed by the file's own header
DictReader(f) ==
  [r \in 1..Len(f.rows) |->
     [c \in 1..Len(f.header) |-> <<f.header[c], <<"str", f.rows[r][c]>>>>]]

\* DictWriter._dict_to_list raises ValueError for a key outside fieldnames
HasExtraKeys(d, fieldnames) == \E i \in 1..Len(d) : ~InList(d[i][1], fieldnames)

\* DictWriter._dict_to_list: the cells of a row, '' for a missing key
DictToList(d, fieldnames) ==
  [c \in 1..Len(fieldnames) |->
     IF HasKey(d, fieldnames[c]) THEN Str(Get(d, fieldnames[c])) ELSE ""]

\* the rows writerows() writes before it raises on a row, or all of them
WritablePrefix(data, fieldnames) ==
  IF \E i \in 1..Len(data) : HasExtraKeys(data[i], fieldnames)
    THEN (CHOOSE i \in 1..Len(data) :
            /\ HasExtraKeys(data[i], fieldnames)
            /\ \A j \in 1..(i-1) : ~HasExtraKeys(data[j], fieldnames)) - 1
    ELSE Len(data)

\* the file after writeheader() and writerows(data)
WrittenFile(data, fieldnames) ==
  CsvFile(fieldnames,
          [r \in 1..WritablePrefix(data, fieldnames) |-> DictToList(data[r], fieldnames)])

(* ------------------------------------------------------------------ *)
(* The search client (e621 behind the browser page)                    *)
(* ------------------------------------------------------------------ *)

\* scores at which the simulated client holds posts
Sites == {0, 1, 2, 257, 513}

\* posts the simulated client may hold at one score
Counts == {0, 1, 30000, 56175, 60000}

Dists ==
  {d \in [Sites -> Counts] : Cardinality({s \in Sites : d[s] # 0}) <= MaxGroups}

EmptyDist == [s \in Sites |-> 0]

\* the one calendar year in which the simulated client holds posts
HotYear == CURRENT_YEAR - 1

\* the tag names the tag listing returns for a valid page range
TagListing == <<"Fox">>

\* re.match(r"^(\d+)(\.\.(\d+))?$", page_range) on the tokens of the model
IsPageRange(s) == s \in {"1", "1..2"}

\* a score filter of a query: score:lo..hi, score:>v, score:<=v
ScoreBetween(lo, hi) == [k |-> "between", lo |-> lo, hi |-> hi]

ScoreAbove(v) == [k |-> "gt", lo |-> v, hi |-> v]

ScoreAtMost(v) == [k |-> "le", lo |-> v, hi |-> v]

Sat(c, s) ==
  CASE c.k = "between" -> c.lo <= s /\ s <= c.hi
    [] c.k = "gt" -> s > c.lo
    [] c.k = "le" -> s <= c.lo

RECURSIVE SumOver(_, _)
SumOver(S, d) ==
  IF S = {} THEN 0
  ELSE LET s == CHOOSE t \in S : TRUE IN d[s] + SumOver(S \ {s}, d)

\* the posts of calendar year y, by score
Items(d, y) == IF y = HotYear THEN d ELSE EmptyDist

\* a reversed range lo..hi (lo > hi) is read by the site either as written,
\* matching nothing, or with its ends in order
Reversed(c) == c.k = "between" /\ c.lo > c.hi

Swapped(c) == IF Reversed(c) THEN ScoreBetween(c.hi, c.lo) ELSE c

Readings(cons) ==
  {[i \in 1..Len(cons) |-> IF i \in S THEN Swapped(cons[i]) ELSE cons[i]] :
     S \in SUBSET {i \in 1..Len(cons) : Reversed(cons[i])}}

\* posts of distribution d that satisfy every score filter
Matching(d, cons) ==
  SumOver({s \in Sites : \A i \in 1..Len(cons) : Sat(cons[i], s)}, d)

\* date:{year}_yesteryears_ago: the calendar year, counted from the day of the run
DateScope(today, year) == today - year

\* the numbers of posts the site may answer a query with
Answers(d, today, year, cons) ==
  {Matching(Items(d, DateScope(today, year)), r) : r \in Readings(cons)}

\* the pagination's data-total for n matching posts
DataTotal(n) == (n + PAGE_SIZE - 1) \div PAGE_SIZE

\* get_post_count_on_current_page() on the last result page
PostsOnLastPage(n) == IF n = 0 THEN 0 ELSE n - PAGE_SIZE * (DataTotal(n) - 1)

Counted(v) == [kind |-> "count", v |-> v]

Truncated == [kind |-> "none", v |-> 0]

NeedsBatches == [kind |-> "batched", v |-> 0]

GetPostCount_NoLastPage(n, is_batched) ==
  LET data_total == DataTotal(n) IN
  IF data_total = 0 THEN Counted(0)
  ELSE IF data_total > 1 /\ data_total >= PAGE_CEILING
    THEN (IF is_batched THEN Truncated ELSE NeedsBatches)
    ELSE Counted(PAGE_SIZE * data_total)

\* get_post_count() on a query that n posts match, up to the call of
\* get_batched_post_count()
GetPostCount(n, is_batched) ==
  LET data_total == DataTotal(n) IN
  IF data_total = 0 THEN Counted(0)
  ELSE IF data_total > 1 /\ data_total >= PAGE_CEILING
    THEN (IF is_batched THEN Truncated ELSE NeedsBatches)
    ELSE Counted(PAGE_SIZE * (data_total - 1) + PostsOnLastPage(n))

(* ------------------------------------------------------------------ *)
(* Command line                                                        *)
(* ------------------------------------------------------------------ *)

RemoveIfIn(x, s) == IF InList(x, s) THEN RemoveFirst(x, s) ELSE s

\* the keys of {tag.lower(): None for tag in tags}: first occurrences, in order
RECURSIVE LowerKeys(_)
LowerKeys(tags) ==
  IF tags = <<>> THEN <<>>
  ELSE LET rest == LowerKeys(SubSeq(tags, 1, Len(tags) - 1))
           t == Lower(tags[Len(tags)])
       IN IF InList(t, rest) THEN rest ELSE Append(rest, t)

\* the keys left after popping every key in ks that some row's tag lowers to
RECURSIVE Unpopped(_, _)
Unpopped(ks, rowtags) ==
  IF ks = <<>> THEN <<>>
  ELSE LET rest == Unpopped(Tail(ks), rowtags) IN
       IF \E i \in 1..Len(rowtags) : Lower(rowtags[i]) = Head(ks)
         THEN rest ELSE <<Head(ks)>> \o rest

\* the "Tag" cell of every row DictReader yields
RowTags(f) == [r \in 1..Len(f.rows) |-> Get(DictReader(f)[r], "Tag")[2]]

RemoveKnownTags_KeepAll(tags, f) == tags

RemoveKnownTags_NoFileCheck(tags, f) == Unpopped(LowerKeys(tags), RowTags(f))

\* remove_known_tags(tags)
RemoveKnownTags(tags, f) ==
  IF ~f.exists THEN tags ELSE Unpopped(LowerKeys(tags), RowTags(f))

Queries(qs) == [ok |-> TRUE, queries |-> qs, error |-> "none"]

Raised(e) == [ok |-> FALSE, queries |-> <<>>, error |-> e]

\* get_queries(): the list of queries, or the exception it raises
GetQueries(args, f) ==
  LET a0 == [i \in 1..Len(args) |-> Lower(args[i])]
      a1 == RemoveIfIn("-o", a0)
      hasp == InList("-p", a1)
      i == IF hasp THEN IndexOf("-p", a1) ELSE 0
  IN IF hasp /\ i + 1 > Len(a1) THEN Raised("IndexError")
     ELSE IF hasp /\ ~IsPageRange(a1[i+1]) THEN Raised("Exception")
     ELSE
       LET a2 == IF hasp THEN PopAt(PopAt(a1, i+1), i) \o TagListing ELSE a1
           skip_known_tags == ~InList("-w", a2)
           a3 == RemoveIfIn("-w", a2)
           a4 == RemoveIfIn("-c", a3)
       IN IF InList("-c", a3) /\ a4 # <<>> THEN Queries(<<Join(a4)>>)
          ELSE IF skip_known_tags THEN Queries(RemoveKnownTags(a4, f))
          ELSE Queries(a4)

(* ------------------------------------------------------------------ *)
(* The result store                                                    *)
(* ------------------------------------------------------------------ *)

RowMatches_CaseSensitive(row, new_row) == Get(row, "Tag")[2] = Get(new_row, "Tag")[2]

\* row["Tag"].lower() == new_row["Tag"].lower()
RowMatches(row, new_row) == Lower(Get(row, "Tag")[2]) = Lower(Get(new_row, "Tag")[2])

\* new_row once the loop over the rows is through: the one dict object takes
\* the tag text of every matching row in turn, the last one stays
MergedRow_QueryCasing(rows, new_row) == new_row

MergedRow(rows, new_row) ==
  IF \E r \in 1..Len(rows) : RowMatches(rows[r], new_row)
    THEN LET last == CHOOSE r \in 1..Len(rows) :
                       /\ RowMatches(rows[r], new_row)
                       /\ \A q \in (r+1)..Len(rows) : ~RowMatches(rows[q], new_row)
         IN Put(new_row, "Tag", Get(rows[last], "Tag"))
    ELSE new_row

\* data, the list of dicts handed to writerows()
MergedData(rows, new_row) ==
  LET merged == MergedRow(rows, new_row)
      kept == [r \in 1..Len(rows) |->
                 IF RowMatches(rows[r], new_row) THEN merged ELSE rows[r]]
  IN IF \E r \in 1..Len(rows) : RowMatches(rows[r], new_row)
       THEN kept ELSE Append(kept, merged)

\* update_csv_file(new_row): the file it leaves and whether writerows() raised
UpdateCsvFileResult(f, new_row) ==
  LET rows == DictReader(IF f.exists THEN f ELSE CsvFile(<<>>, <<>>))
      data == MergedData(rows, new_row)
      fieldnames == Keys(MergedRow(rows, new_row))
  IN [file |-> WrittenFile(data, fieldnames),
      raised |-> WritablePrefix(data, fieldnames) < Len(data)]

(* ------------------------------------------------------------------ *)
(* State                                                               *)
(* ------------------------------------------------------------------ *)

VARIABLES
  run,             \* 1 for the first run of the command, 2 when it is given again
  lost,            \* a timeout of the current year dropped a pass that had counted posts
  argv,            \* sys.argv[1:]
  today,           \* the calendar year in which the run takes place
  dist,            \* the posts of the site in HotYear, by score
  file,            \* OUTPUT_FILE
  file0,           \* OUTPUT_FILE as the run found it
  pc,              \* where the run is
  error,           \* the exception that ended the run, or "none"
  output_to_file,  \* tag_counter's flag
  queries,         \* the list get_queries() returned
  qi,              \* index in queries of the query run_tag_count is at
  new_row,         \* print_post_total's dict (empty when not output_to_file)
  printed,         \* the <<year, count>> lines printed for the current query
  year,            \* print_post_total's loop variable
  retries,         \* nested get_post_count_for_year calls of the current year
  stack,           \* the active get_batched_post_count calls, innermost last
  result,          \* the count get_post_count_for_year returned
  lastpass,        \* the outermost partition pass that produced result, if any
  issued,          \* the tag expressions searched for so far
  upserts          \* the tags update_csv_file was called for so far

vars == <<run, lost, argv, today, dist, file, file0, pc, error, output_to_file, queries, qi, new_row,
          printed, year, retries, stack, result, lastpass, issued, upserts>>

NoPass == [cons |-> <<>>, bound |-> 0, interval |-> 0, count |-> 0,
           phase |-> "none", probes |-> <<>>]

\* the locals of get_batched_post_count(page, tags) on entry
NewPass(cons) ==
  [cons |-> cons, bound |-> INITIAL_BOUND_SCORE, interval |-> INITIAL_INTERVAL_SCORE,
   count |-> 0, phase |-> "loop", probes |-> <<>>]

(* ------------------------------------------------------------------ *)
(* Inputs                                                              *)
(* ------------------------------------------------------------------ *)

FlagLists == {<<>>, <<"-w">>, <<"-c">>, <<"-o">>, <<"-w", "-c">>, <<"-o", "-w">>}

TagLists == {<<"fox">>, <<"Fox">>, <<"wolf", "fox">>, <<"fox", "fox">>}

PageArgvs ==
  {<<"-p", "1">>, <<"-w", "-p", "1">>, <<"-p">>, <<"-p", "fox">>, <<"-w", "fox", "-p", "1">>}

Argvs == {f \o t : f \in FlagLists, t \in TagLists} \cup PageArgvs \cup {<<>>}

\* the header written by a build with current year cy and lookback lb
HeaderOf(cy, lb) == <<"Tag">> \o [i \in 1..lb |-> ToString(cy - (lb + 1 - i))]

Headers ==
  {Fieldnames, HeaderOf(CURRENT_YEAR - 1, LOOKBACK_YEARS),
   HeaderOf(CURRENT_YEAR, LOOKBACK_YEARS - 1)}

StoredTagLists == {<<>>, <<"Fox">>, <<"wolf", "fox">>}

StoredRow(tag, header) == [c \in 1..Len(header) |-> IF c = 1 THEN tag ELSE "7"]

Stores ==
  {NoFile, CsvFile(Fieldnames, <<StoredRow("wolf fox", Fieldnames)>>)} \cup
  {CsvFile(h, [r \in 1..Len(ts) |-> StoredRow(ts[r], h)]) : h \in Headers, ts \in StoredTagLists}

\* distributions below the ceiling, for the runs that exercise the store
SmallDists == {d \in Dists : \A s \in Sites : d[s] # 0 => (s = 2 /\ d[s] = 1)}

Years == {CURRENT_YEAR, CURRENT_YEAR + 1}

Init ==
  /\ \/ /\ argv = <<"fox">>
        /\ file = NoFile
        /\ dist \in Dists
        /\ today \in Years
     \/ /\ argv \in Argvs
        /\ file \in Stores
        /\ dist \in SmallDists
        /\ today = CURRENT_YEAR
  /\ run = 1
  /\ lost = FALSE
  /\ file0 = file
  /\ pc = "start"
  /\ error = "none"
  /\ output_to_file = TRUE
  /\ queries = <<>>
  /\ qi = 1
  /\ new_row = <<>>
  /\ printed = <<>>
  /\ year = 0
  /\ retries = 0
  /\ stack = <<>>
  /\ result = 0
  /\ lastpass = NoPass
  /\ issued = {}
  /\ upserts = <<>>

(* ------------------------------------------------------------------ *)
(* Actions                                                             *)
(* ------------------------------------------------------------------ *)

Abort(e) == pc' = "aborted" /\ error' = e

OutputToFile_Always(args) == TRUE

\* output_to_file = "-o" not in sys.argv
OutputToFile(args) == ~InList("-o", args)

\* tag_counter(): output_to_file and get_queries()
TagCounter ==
  /\ pc = "start"
  /\ output_to_file' = OutputToFile(argv)
  /\ LET q == GetQueries(argv, file) IN
       IF q.ok
         THEN /\ queries' = q.queries
              /\ pc' = "loop"
              /\ error' = error
         ELSE /\ queries' = queries
              /\ Abort(q.error)
  /\ UNCHANGED <<run, lost, argv, today, dist, file0, file, qi, new_row, printed, year, retries, stack,
                 result, lastpass, issued, upserts>>

\* run_tag_count's loop takes the next query; print_post_total up to its year loop
PrintPostTotal ==
  /\ pc = "loop"
  /\ qi <= Len(queries)
  /\ new_row' = IF output_to_file THEN <<<<"Tag", <<"str", queries[qi]>>>>>> ELSE <<>>
  /\ printed' = <<>>
  /\ year' = LOOKBACK_YEARS
  /\ retries' = 0
  /\ pc' = "year"
  /\ UNCHANGED <<run, lost, argv, today, dist, file0, file, error, output_to_file, queries, qi, stack,
                 result, lastpass, issued, upserts>>

\* a call one level deeper fits the interpreter's recursion limit
CanCall == retries + Len(stack) < RecursionLimit

\* get_post_count_for_year(page, year, tags) down to get_post_count()'s return or
\* its call of get_batched_post_count()
GetPostCountForYear ==
  /\ pc = "year"
  /\ issued' = issued \cup {queries[qi]}
  /\ \E n \in Answers(dist, today, year, <<>>) :
       LET r == GetPostCount(n, FALSE) IN
       IF r.kind = "count"
         THEN /\ result' = r.v
              /\ lastpass' = NoPass
              /\ pc' = "counted"
              /\ UNCHANGED <<stack, error>>
         ELSE IF CanCall
           THEN /\ stack' = Append(stack, NewPass(<<>>))
                /\ pc' = "batch"
                /\ UNCHANGED <<result, lastpass, error>>
           ELSE /\ Abort("RecursionError")
                /\ UNCHANGED <<stack, result, lastpass>>
  /\ UNCHANGED <<run, lost, argv, today, dist, file0, file, output_to_file, queries, qi, new_row,
                 printed, year, retries, upserts>>

Top == stack[Len(stack)]

SetTop(f) == [stack EXCEPT ![Len(stack)] = f]

\* the history of a pass keeps its first MaxProbes probes
Logged(probes, lo, hi, ok) ==
  IF Len(probes) < MaxProbes
    THEN Append(probes, [lo |-> lo, hi |-> hi, ok |-> ok])
    ELSE probes

BatchWindow_Overlapping(bound, interval) == ScoreBetween(Max(1, bound - interval), bound)

\* score:{max(1, bound-interval+1)}..{bound}
BatchWindow(bound, interval) == ScoreBetween(Max(1, bound - interval + 1), bound)

NextBound_InitialWidth(bound, interval) == bound - INITIAL_INTERVAL_SCORE

\* bound -= interval
NextBound(bound, interval) == bound - interval

\* one iteration of get_batched_post_count's while loop
BatchProbe ==
  /\ pc = "batch"
  /\ Top.phase = "loop"
  /\ Top.bound > 0
  /\ LET w == BatchWindow(Top.bound, Top.interval) IN
     \E n \in Answers(dist, today, year, Append(Top.cons, w)) :
       LET batch_count == GetPostCount(n, TRUE) IN
       IF batch_count.kind = "none"
         THEN stack' = SetTop([Top EXCEPT
                 !.interval = Top.interval \div 2,
                 !.probes = Logged(Top.probes, w.lo, w.hi, FALSE)])
         ELSE LET b == NextBound(Top.bound, Top.interval) IN
              stack' = SetTop([Top EXCEPT
                 !.count = Top.count + batch_count.v,
                 !.bound = b,
                 !.phase = IF b > 0 THEN "loop" ELSE "gt",
                 !.probes = Logged(Top.probes, w.lo, w.hi, TRUE)])
  /\ UNCHANGED <<run, lost, argv, today, dist, file0, file, pc, error, output_to_file, queries, qi,
                 new_row, printed, year, retries, result, lastpass, issued, upserts>>

\* the score filter of the boundary query a pass is at
BoundaryFilter(phase) ==
  IF phase = "gt" THEN ScoreAbove(INITIAL_BOUND_SCORE) ELSE ScoreAtMost(0)

AfterPhase(phase) == IF phase = "gt" THEN "le" ELSE "ret"

\* one of the two get_post_count(page, batched_tags, is_batched=False) calls
\* that follow the loop
BatchBoundary ==
  /\ pc = "batch"
  /\ Top.phase \in {"gt", "le"}
  /\ LET cons == Append(Top.cons, BoundaryFilter(Top.phase)) IN
     \E n \in Answers(dist, today, year, cons) :
       LET r == GetPostCount(n, FALSE) IN
       IF r.kind = "count"
         THEN /\ stack' = SetTop([Top EXCEPT !.count = Top.count + r.v,
                                             !.phase = AfterPhase(Top.phase)])
              /\ UNCHANGED <<pc, error>>
         ELSE IF CanCall
           THEN /\ stack' = Append(stack, NewPass(cons))
                /\ UNCHANGED <<pc, error>>
           ELSE /\ Abort("RecursionError")
                /\ UNCHANGED stack
  /\ UNCHANGED <<run, lost, argv, today, dist, file0, file, output_to_file, queries, qi, new_row,
                 printed, year, retries, result, lastpass, issued, upserts>>

\* return count: to the boundary query of the enclosing pass, or to
\* get_post_count_for_year
BatchReturn ==
  /\ pc = "batch"
  /\ Top.phase = "ret"
  /\ IF Len(stack) = 1
       THEN /\ result' = Top.count
            /\ lastpass' = Top
            /\ stack' = <<>>
            /\ pc' = "counted"
       ELSE LET outer == stack[Len(stack) - 1] IN
            /\ stack' = Append(SubSeq(stack, 1, Len(stack) - 2),
                               [outer EXCEPT !.count = outer.count + Top.count,
                                             !.phase = AfterPhase(outer.phase)])
            /\ UNCHANGED <<result, lastpass, pc>>
  /\ UNCHANGED <<run, lost, argv, today, dist, file0, file, error, output_to_file, queries, qi, new_row,
                 printed, year, retries, issued, upserts>>

Unwound_KeepFrames(frames) == frames

\* the get_batched_post_count calls still active once TimeoutError has reached
\* get_post_count_for_year's except clause: none, their locals are gone
Unwound(frames) == <<>>

\* a page operation of the current count raises TimeoutError:
\* get_post_count_for_year catches it and calls itself
Timeout ==
  /\ \/ pc = "year"
     \/ pc = "batch" /\ Top.phase # "ret"
  /\ stack' = Unwound(stack)
  /\ lost' = (lost \/ (stack # <<>> /\ stack[1].count > 0))
  /\ IF retries < RecursionLimit
       THEN /\ retries' = retries + 1
            /\ pc' = "year"
            /\ error' = error
       ELSE /\ retries' = retries
            /\ Abort("RecursionError")
  /\ UNCHANGED <<run, argv, today, dist, file0, file, output_to_file, queries, qi, new_row,
                 printed, year, result, lastpass, issued, upserts>>

AfterYear_WriteEveryYear(left, to_file) == IF to_file THEN "write" ELSE "next"

\* where print_post_total goes after a year: the next year of the loop, or
\* past the loop to update_csv_file (if output_to_file) and back to the caller
AfterYear(left, to_file) ==
  IF left > 0 THEN "year" ELSE IF to_file THEN "write" ELSE "next"

\* print_post_total's loop body after the count: the column and the printed line
PrintYear ==
  /\ pc = "counted"
  /\ new_row' = IF output_to_file
                  THEN Put(new_row, YearLabel(year), <<"int", result>>)
                  ELSE new_row
  /\ printed' = Append(printed, <<CURRENT_YEAR - year, result>>)
  /\ year' = year - 1
  /\ retries' = 0
  /\ lost' = FALSE
  /\ pc' = AfterYear(year - 1, output_to_file)
  /\ UNCHANGED <<run, argv, today, dist, file0, file, error, output_to_file, queries, qi, stack,
                 result, lastpass, issued, upserts>>

\* update_csv_file(new_row)
UpdateCsvFile ==
  /\ pc = "write"
  /\ LET u == UpdateCsvFileResult(file, new_row) IN
       /\ file' = u.file
       /\ IF u.raised
            THEN Abort("ValueError")
            ELSE pc' = "next" /\ error' = error
  /\ upserts' = Append(upserts, queries[qi])
  /\ UNCHANGED <<run, lost, argv, today, dist, file0, output_to_file, queries, qi, new_row, printed,
                 year, retries, stack, result, lastpass, issued>>

\* print_post_total returns to run_tag_count's loop
NextQuery ==
  /\ pc = "next"
  /\ qi' = qi + 1
  /\ pc' = "loop"
  /\ UNCHANGED <<run, lost, argv, today, dist, file0, file, error, output_to_file, queries, new_row,
                 printed, year, retries, stack, result, lastpass, issued, upserts>>

\* run_tag_count's loop is through
Finish ==
  /\ pc = "loop"
  /\ qi > Len(queries)
  /\ pc' = "done"
  /\ UNCHANGED <<run, lost, argv, today, dist, file0, file, error, output_to_file, queries, qi, new_row,
                 printed, year, retries, stack, result, lastpass, issued, upserts>>

\* the command is given again, with the same arguments and the same site, after
\* a run that ended otherwise than by giving up on the site
RunAgain ==
  /\ run = 1
  /\ pc = "done" \/ (pc = "aborted" /\ error # "RecursionError")
  /\ run' = 2
  /\ file0' = file
  /\ pc' = "start"
  /\ error' = "none"
  /\ output_to_file' = TRUE
  /\ queries' = <<>>
  /\ qi' = 1
  /\ new_row' = <<>>
  /\ printed' = <<>>
  /\ year' = 0
  /\ retries' = 0
  /\ result' = 0
  /\ lastpass' = NoPass
  /\ issued' = {}
  /\ upserts' = <<>>
  /\ UNCHANGED <<lost, argv, today, dist, file, stack>>

Next ==
  \/ TagCounter
  \/ PrintPostTotal
  \/ GetPostCountForYear
  \/ BatchProbe
  \/ BatchBoundary
  \/ BatchReturn
  \/ Timeout
  \/ PrintYear
  \/ UpdateCsvFile
  \/ NextQuery
  \/ Finish
  \/ RunAgain

Spec == Init /\ [][Next]_vars

\* the program's own steps: everything but the timeouts of the site
Step ==
  \/ TagCounter
  \/ PrintPostTotal
  \/ GetPostCountForYear
  \/ BatchProbe
  \/ BatchBoundary
  \/ BatchReturn
  \/ PrintYear
  \/ UpdateCsvFile
  \/ NextQuery
  \/ Finish
  \/ RunAgain

(* ------------------------------------------------------------------ *)
(* Properties                                                          *)
(* ------------------------------------------------------------------ *)

\* the posts of the current query's year, whatever their score
TrueCount == Matching(Items(dist, DateScope(today, year)), <<>>)

\* the top-level query of the current year is below the enumeration ceiling
BelowCeiling == DataTotal(TrueCount) < PAGE_CEILING

\* the windows of a pass whose counts were added to its total
AddedWindows(pass) == {i \in 1..Len(pass.probes) : pass.probes[i].ok}

\* C1: when the top-level query of a year truncates and the partitioned count
\* returns, the value it returns (the sum of the successful window counts and of
\* the two boundary counts) is the true count of the unpartitioned query.
C1_PartitionedCountExact ==
  (pc = "counted" /\ lastpass.phase = "ret") =>
    /\ ~BelowCeiling
    /\ result = lastpass.count
    /\ result = TrueCount

\* C1 witness: a partitioned count returned after a window truncated and shrank
C1_Witness ==
  /\ pc = "counted"
  /\ lastpass.phase = "ret"
  /\ result > PAGE_SIZE * PAGE_CEILING
  /\ \E i \in 1..Len(lastpass.probes) : ~lastpass.probes[i].ok
  /\ Cardinality(AddedWindows(lastpass)) >= 3

\* the pieces of a returned pass that contain score s
Covering(pass, s) ==
  Cardinality({i \in AddedWindows(pass) :
                 pass.probes[i].lo <= s /\ s <= pass.probes[i].hi})
  + (IF s > INITIAL_BOUND_SCORE THEN 1 ELSE 0)
  + (IF s <= 0 THEN 1 ELSE 0)

\* C2: the windows added by a pass that returned, together with score > B0 and
\* score <= 0, contain every integer score exactly once.
C2_PartitionCoversOnce ==
  (pc = "counted" /\ lastpass.phase = "ret") =>
    \A s \in (0 - 3)..(INITIAL_BOUND_SCORE + 3) : Covering(lastpass, s) = 1

\* C2 witness: a returned pass whose windows have different widths
C2_Witness ==
  /\ pc = "counted"
  /\ lastpass.phase = "ret"
  /\ \E i, j \in AddedWindows(lastpass) :
       lastpass.probes[i].hi - lastpass.probes[i].lo
         > lastpass.probes[j].hi - lastpass.probes[j].lo

\* C4: a year whose true count is below the ceiling is counted exactly, and
\* get_batched_post_count is not entered for it.
C4_SmallCountExact ==
  BelowCeiling =>
    /\ pc # "batch"
    /\ pc = "counted" => (result = TrueCount /\ lastpass = NoPass)

\* C4 witness: a count of several pages, the last one not full, returned without
\* partitioning
C4_Witness ==
  /\ pc = "counted"
  /\ BelowCeiling
  /\ DataTotal(TrueCount) > 1
  /\ PostsOnLastPage(TrueCount) < PAGE_SIZE
  /\ result = TrueCount
  /\ lastpass = NoPass

\* C3: once even a width-1 window has truncated (interval has been halved to
\* zero) the pass stops: it issues no further probe, so no probe is ever made
\* with the empty window bound+1..bound that interval = 0 yields.
C3_DegenerateStops ==
  \A k \in 1..Len(stack) : \A i \in 1..Len(stack[k].probes) :
    stack[k].probes[i].lo <= stack[k].probes[i].hi

\* C5: while a year is being counted the run can always take a step that
\* changes its state, so that, once the site stops timing out, the count of
\* the year is on its way to being returned.
C5_CountingProgresses == (pc \in {"year", "batch"}) => ENABLED <<Step>>_vars

(* ---- the result store ---- *)

LowerAll(s) == [i \in 1..Len(s) |-> Lower(s[i])]

\* some record of file f has tag t, compared case-insensitively
KnownIn(f, t) == \E r \in 1..Len(f.rows) : Lower(RowTags(f)[r]) = Lower(t)

\* the cell of row r of file f in column col
Cell(f, r, col) == Get(DictReader(f)[r], col)[2]

\* the year counts printed for the current query, as the cells of its record
PrintedCells == [i \in 1..Len(printed) |-> ToString(printed[i][2])]

\* the number of queries update_csv_file has been called for
Written ==
  IF ~output_to_file THEN 0
  ELSE IF pc = "next" \/ error = "ValueError" THEN qi ELSE qi - 1

C7_CasingKept ==
  [][\A r \in 1..Len(file.rows) : \A q \in 1..Len(file'.rows) :
       Lower(RowTags(file)[r]) = Lower(RowTags(file')[q]) =>
         RowTags(file')[q] = RowTags(file)[r]]_vars

\* C7 witness: an upsert of "Fox" has replaced the counts of the record stored
\* as "fox", whose tag text is still "fox"
C7_Witness ==
  /\ pc = "next"
  /\ upserts # <<>>
  /\ upserts[Len(upserts)] = "Fox"
  /\ \E r \in 1..Len(file.rows) :
       /\ RowTags(file)[r] = "fox"
       /\ RowTags(file0)[r] = "fox"
       /\ Tail(file.rows[r]) = PrintedCells
       /\ Tail(file.rows[r]) # Tail(file0.rows[r])

\* the columns that two headers share
Shared(h1, h2) == {c \in Range(h1) : InList(c, h2)}

\* C8: update_csv_file changes only the record of its tag: every record keeps
\* its position and tag text, every other record keeps its counts, the matching
\* record takes the new counts, and a tag without a record is appended, as
\* given, at the end.
C8_UpsertFrame ==
  [][pc = "write" =>
       LET t == Get(new_row, "Tag")[2]
           old == RowTags(file)
           new == RowTags(file')
           matched == KnownIn(file, t)
       IN /\ Len(new) = Len(old) + (IF matched THEN 0 ELSE 1)
          /\ \A r \in 1..Len(old) :
               /\ new[r] = old[r]
               /\ IF Lower(old[r]) = Lower(t)
                    THEN Tail(file'.rows[r]) = PrintedCells
                    ELSE \A c \in Shared(file.header, file'.header) :
                           Cell(file', r, c) = Cell(file, r, c)
          /\ ~matched => /\ new[Len(new)] = t
                         /\ Tail(file'.rows[Len(new)]) = PrintedCells]_vars

\* C9: an upsert into a store whose columns are not those of the run completes:
\* the file is rewritten under the run's columns and holds every record it held.
C9_DriftUpsertCompletes ==
  [][(pc = "write" /\ file.exists /\ file.header # Fieldnames) =>
       /\ pc' = "next"
       /\ file'.header = Fieldnames
       /\ \A r \in 1..Len(file.rows) : KnownIn(file', RowTags(file)[r])]_vars

(* ---- the known-tag filter ---- *)

IsFlag(t) == t \in {"-o", "-w", "-c", "-p"}

\* the tags a command line asks for: its own tags and, with -p, the listed ones
CommandTags(args) ==
  LET NotFlag(t) == ~IsFlag(t) IN
  IF InList("-p", args)
    THEN SelectSeq(PopAt(args, IndexOf("-p", args) + 1), NotFlag)
    ELSE SelectSeq(args, NotFlag)

ListedTags(args) == IF InList("-p", args) THEN TagListing ELSE <<>>

\* the first occurrence of every element of s, in order
RECURSIVE FirstOccurrences(_)
FirstOccurrences(s) ==
  IF s = <<>> THEN <<>>
  ELSE LET h == Head(s)
           Other(x) == x # h
       IN <<h>> \o FirstOccurrences(SelectSeq(Tail(s), Other))

\* get_queries() returned a list
Parsed == pc # "start" /\ error \notin {"IndexError", "Exception"}

Concatenated == InList("-c", argv) /\ CommandTags(argv) # <<>>

C11_SecondRunNoOp ==
  (run = 2 /\ ~InList("-w", argv) /\ ~Concatenated) =>
    /\ file = file0
    /\ upserts = <<>>

(* ---- the filter switched off ---- *)

\* the tags handed to the known-tag filter: the command line's in lower case,
\* then the listed ones
Requested == LowerAll(CommandTags(argv)) \o ListedTags(argv)

\* C12: with -w, or when there is no store file, the queries are all the tags
\* handed to the filter, unchanged: the same elements in the same order, each as
\* often as given. With -c the tags are joined into one query, which is kept
\* whether or not the store holds a record of it.
C12_FilterNoOp ==
  Parsed =>
    /\ (~Concatenated /\ (InList("-w", argv) \/ ~file0.exists)) => queries = Requested
    /\ Concatenated => queries = <<Join(Requested)>>

\* C12 witness: a run with -w is through that counted and wrote, twice, a tag
\* given twice that had a record in the store
C12_Witness ==
  /\ pc = "done"
  /\ InList("-w", argv)
  /\ ~Concatenated
  /\ file0.exists
  /\ Len(queries) = 2
  /\ queries[1] = queries[2]
  /\ KnownIn(file0, queries[1])
  /\ upserts = queries

\* a run is through that searched for a joined query of two tags of which the
\* store held a record
C12_JoinedKept ==
  /\ pc = "done"
  /\ Concatenated
  /\ Len(CommandTags(argv)) = 2
  /\ KnownIn(file0, queries[1])
  /\ issued = {queries[1]}
  /\ upserts = queries

(* ---- console only ---- *)

\* C13: a run with -o leaves the store file as it found it, in every state of
\* the run: no record is added or rewritten and no file is created.
C13_ConsoleOnlyKeepsStore == InList("-o", argv) => (file = file0 /\ upserts = <<>>)

\* C13 witness: a run with -o that found no store file is through, has counted
\* posts of its tags, and there is still no file
C13_Witness ==
  /\ pc = "done"
  /\ InList("-o", argv)
  /\ queries # <<>>
  /\ issued = Range(queries)
  /\ Len(printed) = LOOKBACK_YEARS
  /\ \E i \in 1..Len(printed) : printed[i][2] > 0
  /\ file0 = NoFile
  /\ file = NoFile

(* ---- the boundary queries ---- *)

\* C14: a boundary query that truncates starts no partitioning pass of its own:
\* at most one get_batched_post_count call is ever active.
C14_BoundaryTakenAsIs == Len(stack) <= 1

(* ---- the probes of a pass ---- *)

\* C15, its last part: no pass probes the same score window twice.
C15_NoWindowProbedTwice ==
  \A k \in 1..Len(stack) : \A i, j \in 1..Len(stack[k].probes) :
    (i < j) =>
      ~(/\ stack[k].probes[i].lo = stack[k].probes[j].lo
        /\ stack[k].probes[i].hi = stack[k].probes[j].hi)

(* ---- the year columns ---- *)

\* C16: every count printed for the current query, and put into its row, under
\* the year CURRENT_YEAR - offset is the number of posts of that calendar year,
\* in whatever year the run takes place.
C16_ColumnIsCalendarYear ==
  /\ \A i \in 1..Len(printed) : printed[i][2] = Matching(Items(dist, printed[i][1]), <<>>)
  /\ \A i \in 1..Len(printed) :
       output_to_file => new_row[i + 1] = <<ToString(printed[i][1]), <<"int", printed[i][2]>>>>

(* ---- timeouts ---- *)

\* C17: a timeout leaves nothing of the attempt it ends: the year is counted
\* again from its top-level query with no partition pass active, a pass that is
\* started begins at bound = interval = INITIAL_BOUND_SCORE with a total of 0,
\* and the count returned for the year after any number of timeouts is the true
\* count, which is what a run without timeouts returns.
C17_TimeoutsLeaveNoTrace ==
  /\ pc = "year" => stack = <<>>
  /\ (pc = "batch" /\ stack[1].probes = <<>>) =>
       /\ stack[1].bound = INITIAL_BOUND_SCORE
       /\ stack[1].interval = INITIAL_INTERVAL_SCORE
       /\ stack[1].count = 0
  /\ (pc = "batch" /\ stack[1].probes # <<>>) =>
       /\ stack[1].probes[1].hi = INITIAL_BOUND_SCORE
       /\ stack[1].probes[1].lo = 1
  /\ (pc = "counted" /\ retries > 0) =>
       /\ result = TrueCount
       /\ lastpass # NoPass => (result = lastpass.count /\ Len(lastpass.probes) > 0
                                /\ lastpass.probes[1].hi = INITIAL_BOUND_SCORE)

\* C17 witness: the partitioned count of a year has returned the true count
\* after a timeout dropped a pass that had already counted posts
C17_Witness ==
  /\ pc = "counted"
  /\ retries > 0
  /\ lost
  /\ lastpass.phase = "ret"
  /\ result = TrueCount
  /\ result > PAGE_SIZE * PAGE_CEILING

(* ---- one record per tag ---- *)

\* C18: the store never holds two records whose tags are equal when lowercased,
\* after any sequence of upserts, in one run or two, into a store that was
\* absent, empty, or held records of distinct tags.
C18_OneRecordPerTag ==
  \A r, q \in 1..Len(file.rows) :
    r # q => Lower(RowTags(file)[r]) # Lower(RowTags(file)[q])

\* C18 witness: a first run that found no record has upserted fox and then Fox,
\* and the store holds the one record fox
C18_Witness ==
  /\ run = 1
  /\ file0.rows = <<>>
  /\ pc = "done"
  /\ upserts = <<"fox", "Fox">>
  /\ RowTags(file) = <<"fox">>

====
